---- MODULE Spec2Model ----
(***************************************************************************)
(* Job-matching backend (app/crud.py, app/routers/*.py, app/models.py).    *)
(*                                                                         *)
(* The datastore is the relational schema of app/models.py: users,         *)
(* addresses (1:1 with users), skills, jobs and the two association tables *)
(* user_skills and job_skills.  Each HTTP handler is one action.  The      *)
(* matching engine list_job_matches is a pure operator over the datastore, *)
(* applied by the action read_job_matches.                                 *)
(*                                                                         *)
(* Encoding.  Optional[T] is a sequence of length 0 (None) or 1 (a value). *)
(* Distances are integers in hundredths of a kilometre (the code rounds to *)
(* 2 decimals).  Primary keys are SQLite rowids: no row is ever deleted,   *)
(* so a new row's id is the row count plus one.  Unique text columns       *)
(* (users.email, skills.name) are identified with the id of the row that   *)
(* holds them.  created_at is datetime.utcnow at insertion; two signups    *)
(* are taken to get distinct, increasing timestamps.  A write request that *)
(* the handler refuses (404, 403, 400) commits nothing; it is the guard of *)
(* the action being false.                                                 *)
(***************************************************************************)
EXTENDS Integers, Sequences, FiniteSets, TLC

\* ---------------------------------------------------------------- bounds
MaxUsers == 3
MaxSkills == 2
MaxJobs == 1
MaxLimit == 2
MaxOffset == 1
MaxUserSkills == 3
MaxAddresses == 2

\* ------------------------------------------------------ program constants
LimitLe == 100

\* ------------------------------------------------------------- optionals
None == <<>>
Some(x) == <<x>>
IsNone(o) == o = <<>>
Val(o) == o[1]

\* Coordinates the requests may carry (decimal degrees, inside the ranges
\* that schemas.LatitudeLongitudeModel accepts).
Lats == {0}
Lons == {0, 1, 2}
JobLons == {0}

VARIABLES users, created_at, address, skills, user_skills, jobs, job_skills,
          response

db == <<users, created_at, address, skills, user_skills, jobs, job_skills>>
vars == <<users, created_at, address, skills, user_skills, jobs, job_skills,
          response>>

\* ------------------------------------------------------------- responses
\* `response` records the outcome of the last GET /jobs/{job_id}/matches; the
\* response of any other handler is not recorded (NoResponse).
NoResponse == [status |-> 0, job |-> 0, limit |-> 0, offset |-> 0, body |-> <<>>]
ErrorResponse(code) == [status |-> code, job |-> 0, limit |-> 0, offset |-> 0, body |-> <<>>]

\* --------------------------------------------------------------- geometry
\* _haversine is tabulated: the Python function of crud.py was run in CPython
\* (IEEE doubles, round(., 2)) on every ordered pair of grid points, each
\* ordered pair evaluated on its own; entries are hundredths of a kilometre.
\* Row i, column j is _haversine(HvPoints[i], HvPoints[j]).
HvLats == {-90, 0, 45, 90}
HvLons == {-180, 0, 1, 2, 90, 180}

HvPoints ==
  <<<<-90, -180>>, <<-90, 0>>, <<-90, 1>>, <<-90, 2>>, <<-90, 90>>, <<-90, 180>>, <<0, -180>>, <<0, 0>>, <<0, 1>>, <<0, 2>>, <<0, 90>>, <<0, 180>>, <<45, -180>>, <<45, 0>>, <<45, 1>>, <<45, 2>>, <<45, 90>>, <<45, 180>>, <<90, -180>>, <<90, 0>>, <<90, 1>>, <<90, 2>>, <<90, 90>>, <<90, 180>>>>

HaversineMatrix ==
  <<
     <<0, 0, 0, 0, 0, 0, 1000754, 1000754, 1000754, 1000754, 1000754, 1000754, 1501132, 1501132, 1501132, 1501132, 1501132, 1501132, 2001509, 2001509, 2001509, 2001509, 2001509, 2001509>>,
     <<0, 0, 0, 0, 0, 0, 1000754, 1000754, 1000754, 1000754, 1000754, 1000754, 1501132, 1501132, 1501132, 1501132, 1501132, 1501132, 2001509, 2001509, 2001509, 2001509, 2001509, 2001509>>,
     <<0, 0, 0, 0, 0, 0, 1000754, 1000754, 1000754, 1000754, 1000754, 1000754, 1501132, 1501132, 1501132, 1501132, 1501132, 1501132, 2001509, 2001509, 2001509, 2001509, 2001509, 2001509>>,
     <<0, 0, 0, 0, 0, 0, 1000754, 1000754, 1000754, 1000754, 1000754, 1000754, 1501132, 1501132, 1501132, 1501132, 1501132, 1501132, 2001509, 2001509, 2001509, 2001509, 2001509, 2001509>>,
     <<0, 0, 0, 0, 0, 0, 1000754, 1000754, 1000754, 1000754, 1000754, 1000754, 1501132, 1501132, 1501132, 1501132, 1501132, 1501132, 2001509, 2001509, 2001509, 2001509, 2001509, 2001509>>,
     <<0, 0, 0, 0, 0, 0, 1000754, 1000754, 1000754, 1000754, 1000754, 1000754, 1501132, 1501132, 1501132, 1501132, 1501132, 1501132, 2001509, 2001509, 2001509, 2001509, 2001509, 2001509>>,
     <<1000754, 1000754, 1000754, 1000754, 1000754, 1000754, 0, 2001509, 1990389, 1979270, 1000754, 0, 500377, 1501132, 1501034, 1500744, 1000754, 500377, 1000754, 1000754, 1000754, 1000754, 1000754, 1000754>>,
     <<1000754, 1000754, 1000754, 1000754, 1000754, 1000754, 2001509, 0, 11119, 22239, 1000754, 2001509, 1501132, 500377, 500474, 500765, 1000754, 1501132, 1000754, 1000754, 1000754, 1000754, 1000754, 1000754>>,
     <<1000754, 1000754, 1000754, 1000754, 1000754, 1000754, 1990389, 11119, 0, 11119, 989635, 1990389, 1501034, 500474, 500377, 500474, 992892, 1501034, 1000754, 1000754, 1000754, 1000754, 1000754, 1000754>>,
     <<1000754, 1000754, 1000754, 1000754, 1000754, 1000754, 1979270, 22239, 11119, 0, 978515, 1979270, 1500744, 500765, 500474, 500377, 985031, 1500744, 1000754, 1000754, 1000754, 1000754, 1000754, 1000754>>,
     <<1000754, 1000754, 1000754, 1000754, 1000754, 1000754, 1000754, 1000754, 989635, 978515, 0, 1000754, 1000754, 1000754, 992892, 985031, 500377, 1000754, 1000754, 1000754, 1000754, 1000754, 1000754, 1000754>>,
     <<1000754, 1000754, 1000754, 1000754, 1000754, 1000754, 0, 2001509, 1990389, 1979270, 1000754, 0, 500377, 1501132, 1501034, 1500744, 1000754, 500377, 1000754, 1000754, 1000754, 1000754, 1000754, 1000754>>,
     <<1501132, 1501132, 1501132, 1501132, 1501132, 1501132, 500377, 1501132, 1501034, 1500744, 1000754, 500377, 0, 1000754, 1000706, 1000560, 667170, 0, 500377, 500377, 500377, 500377, 500377, 500377>>,
     <<1501132, 1501132, 1501132, 1501132, 1501132, 1501132, 1501132, 500377, 500474, 500765, 1000754, 1501132, 1000754, 0, 7863, 15725, 667170, 1000754, 500377, 500377, 500377, 500377, 500377, 500377>>,
     <<1501132, 1501132, 1501132, 1501132, 1501132, 1501132, 1501034, 500474, 500377, 500474, 992892, 1501034, 1000706, 7863, 0, 7863, 660731, 1000706, 500377, 500377, 500377, 500377, 500377, 500377>>,
     <<1501132, 1501132, 1501132, 1501132, 1501132, 1501132, 1500744, 500765, 500474, 500377, 985031, 1500744, 1000560, 15725, 7863, 0, 654256, 1000560, 500377, 500377, 500377, 500377, 500377, 500377>>,
     <<1501132, 1501132, 1501132, 1501132, 1501132, 1501132, 1000754, 1000754, 992892, 985031, 500377, 1000754, 667170, 667170, 660731, 654256, 0, 667170, 500377, 500377, 500377, 500377, 500377, 500377>>,
     <<1501132, 1501132, 1501132, 1501132, 1501132, 1501132, 500377, 1501132, 1501034, 1500744, 1000754, 500377, 0, 1000754, 1000706, 1000560, 667170, 0, 500377, 500377, 500377, 500377, 500377, 500377>>,
     <<2001509, 2001509, 2001509, 2001509, 2001509, 2001509, 1000754, 1000754, 1000754, 1000754, 1000754, 1000754, 500377, 500377, 500377, 500377, 500377, 500377, 0, 0, 0, 0, 0, 0>>,
     <<2001509, 2001509, 2001509, 2001509, 2001509, 2001509, 1000754, 1000754, 1000754, 1000754, 1000754, 1000754, 500377, 500377, 500377, 500377, 500377, 500377, 0, 0, 0, 0, 0, 0>>,
     <<2001509, 2001509, 2001509, 2001509, 2001509, 2001509, 1000754, 1000754, 1000754, 1000754, 1000754, 1000754, 500377, 500377, 500377, 500377, 500377, 500377, 0, 0, 0, 0, 0, 0>>,
     <<2001509, 2001509, 2001509, 2001509, 2001509, 2001509, 1000754, 1000754, 1000754, 1000754, 1000754, 1000754, 500377, 500377, 500377, 500377, 500377, 500377, 0, 0, 0, 0, 0, 0>>,
     <<2001509, 2001509, 2001509, 2001509, 2001509, 2001509, 1000754, 1000754, 1000754, 1000754, 1000754, 1000754, 500377, 500377, 500377, 500377, 500377, 500377, 0, 0, 0, 0, 0, 0>>,
     <<2001509, 2001509, 2001509, 2001509, 2001509, 2001509, 1000754, 1000754, 1000754, 1000754, 1000754, 1000754, 500377, 500377, 500377, 500377, 500377, 500377, 0, 0, 0, 0, 0, 0>>
  >>

PointIndex(lat, lon) == CHOOSE i \in 1..Len(HvPoints) : HvPoints[i] = <<lat, lon>>

HaversineTable ==
  [q \in (HvLats \X HvLons \X HvLats \X HvLons) |->
     HaversineMatrix[PointIndex(q[1], q[2])][PointIndex(q[3], q[4])]]

\* Variant of haversine: dlon = lon2 instead of lon2 - lon1, which is the
\* distance from (lat1, 0) to (lat2, lon2).
haversine_dlon_lon2(lat1, lon1, lat2, lon2) == HaversineTable[<<lat1, 0, lat2, lon2>>]

haversine(lat1, lon1, lat2, lon2) == HaversineTable[<<lat1, lon1, lat2, lon2>>]

\* Variant of calculate_distance: only the latitude is tested for None and a
\* missing longitude is read as 0.
calculate_distance_lat_only(job, user) ==
  IF IsNone(job.latitude) THEN None
  ELSE IF IsNone(address[user]) THEN None
  ELSE Some(haversine(Val(job.latitude),
                      IF IsNone(job.longitude) THEN 0 ELSE Val(job.longitude),
                      Val(address[user]).latitude, Val(address[user]).longitude))

calculate_distance(job, user) ==
  IF IsNone(job.latitude) \/ IsNone(job.longitude) THEN None
  ELSE IF IsNone(address[user]) THEN None
  ELSE Some(haversine(Val(job.latitude), Val(job.longitude),
                      Val(address[user]).latitude, Val(address[user]).longitude))

\* --------------------------------------------------------------- selector
RECURSIVE order_by_created_desc(_)
order_by_created_desc(S) ==
  IF S = {} THEN <<>>
  ELSE LET u == CHOOSE x \in S : \A y \in S : created_at[y] <= created_at[x]
       IN <<u>> \o order_by_created_desc(S \ {u})

job_skill_ids(job) == {s \in skills : <<job.id, s>> \in job_skills}
user_skill_ids(u) == {s \in skills : <<u, s>> \in user_skills}

\* Rows of the SELECT before DISTINCT: with the inner join on user_skills a
\* user yields one row per association row whose skill_id is required;
\* without the join, one row per user.
\* Variant of row_count: the query without the join on user_skills, so every
\* user yields one row whatever is required.
row_count_unfiltered(u, required_ids) == 1

row_count(u, required_ids) ==
  IF required_ids # {} THEN Cardinality(user_skill_ids(u) \cap required_ids)
  ELSE 1

RECURSIVE select_rows(_, _)
select_rows(ordered, required_ids) ==
  IF ordered = <<>> THEN <<>>
  ELSE [i \in 1..row_count(Head(ordered), required_ids) |-> Head(ordered)]
         \o select_rows(Tail(ordered), required_ids)

\* Variant of distinct: the query without .distinct().
distinct_omitted(rows) == rows

RECURSIVE distinct(_)
distinct(rows) ==
  IF rows = <<>> THEN <<>>
  ELSE LET init == distinct(SubSeq(rows, 1, Len(rows) - 1))
           last == rows[Len(rows)]
       IN IF \E i \in 1..Len(init) : init[i] = last THEN init
          ELSE Append(init, last)

\* Variant of offset_limit: the query without .offset(offset).
offset_limit_no_offset(rows, offset, limit) ==
  SubSeq(rows, 1, IF limit < Len(rows) THEN limit ELSE Len(rows))

offset_limit(rows, offset, limit) ==
  SubSeq(rows, offset + 1, IF offset + limit < Len(rows) THEN offset + limit ELSE Len(rows))

\* Variant of candidate_query: the query without the User.id != company_id
\* condition.
candidate_query_with_owner(job, required_ids) ==
  distinct(select_rows(order_by_created_desc(users), required_ids))

candidate_query(job, required_ids) ==
  distinct(select_rows(order_by_created_desc({u \in users : u # job.company_id}),
                       required_ids))

\* ----------------------------------------------------------------- scorer
\* Variant of JobMatch: matching_skills is the intersection size even when
\* nothing is required.
JobMatch_intersection_only(job, user, required_ids, required_len) ==
  [user_id |-> user,
   matching_skills |-> Cardinality(required_ids \cap user_skill_ids(user)),
   required_skills |-> required_len,
   distance_km |-> calculate_distance(job, user)]

JobMatch(job, user, required_ids, required_len) ==
  [user_id |-> user,
   matching_skills |-> IF required_ids # {}
                       THEN Cardinality(required_ids \cap user_skill_ids(user))
                       ELSE Cardinality(user_skill_ids(user)),
   required_skills |-> required_len,
   distance_km |-> calculate_distance(job, user)]

\* ---------------------------------------------------------------- ranking
\* m.distance_km or float("inf"): Python's `or` takes the right operand when
\* the left one is falsy, i.e. None or 0.0.  None stands for infinity here.
distance_or_inf(d) == IF IsNone(d) \/ Val(d) = 0 THEN None ELSE d

\* Variant of sort_key: the overlap fraction is not negated.
sort_key_ascending(m, required_len) ==
  [num |-> m.matching_skills, den |-> required_len,
   dist |-> distance_or_inf(m.distance_km)]

sort_key(m, required_len) ==
  [num |-> 0 - m.matching_skills, den |-> required_len,
   dist |-> distance_or_inf(m.distance_km)]

dist_lt(x, y) == ~IsNone(x) /\ (IsNone(y) \/ Val(x) < Val(y))

\* Tuple comparison of two keys; the first components are the quotients
\* num/den, compared by cross-multiplication (den > 0).
key_lt(a, b) ==
  \/ a.num * b.den < b.num * a.den
  \/ a.num * b.den = b.num * a.den /\ dist_lt(a.dist, b.dist)

\* Variant of stable_sort: an element goes before the elements whose key
\* equals its own (not stable).
RECURSIVE unstable_sort(_, _)
unstable_sort(ms, required_len) ==
  IF ms = <<>> THEN <<>>
  ELSE LET init == unstable_sort(SubSeq(ms, 1, Len(ms) - 1), required_len)
           m == ms[Len(ms)]
           before == {i \in 1..Len(init) :
                        \A k \in 1..i : key_lt(sort_key(init[k], required_len),
                                               sort_key(m, required_len))}
           n == Cardinality(before)
       IN SubSeq(init, 1, n) \o <<m>> \o SubSeq(init, n + 1, Len(init))

RECURSIVE stable_sort(_, _)
stable_sort(ms, required_len) ==
  IF ms = <<>> THEN <<>>
  ELSE LET init == stable_sort(SubSeq(ms, 1, Len(ms) - 1), required_len)
           m == ms[Len(ms)]
           before == {i \in 1..Len(init) :
                        \A k \in 1..i : ~key_lt(sort_key(m, required_len),
                                                sort_key(init[k], required_len))}
           n == Cardinality(before)
       IN SubSeq(init, 1, n) \o <<m>> \o SubSeq(init, n + 1, Len(init))

list_job_matches(job, limit, offset) ==
  LET required_ids == job_skill_ids(job)
      page == offset_limit(candidate_query(job, required_ids), offset, limit)
      required_len == IF Cardinality(required_ids) # 0 THEN Cardinality(required_ids) ELSE 1
      matches == [i \in 1..Len(page) |-> JobMatch(job, page[i], required_ids, required_len)]
  IN stable_sort(matches, required_len)

\* ------------------------------------------------------------------ state
Init ==
  /\ users = {}
  /\ created_at = <<>>
  /\ address = <<>>
  /\ skills = {}
  /\ user_skills = {}
  /\ jobs = <<>>
  /\ job_skills = {}
  /\ response = NoResponse

\* POST /auth/signup -> crud.create_user
create_user ==
  /\ Cardinality(users) < MaxUsers
  /\ LET id == Cardinality(users) + 1 IN
       /\ users' = users \cup {id}
       /\ created_at' = Append(created_at, id)
       /\ address' = Append(address, None)
  /\ response' = NoResponse
  /\ UNCHANGED <<skills, user_skills, jobs, job_skills>>

\* POST /skills -> crud.create_skill
create_skill ==
  /\ Cardinality(skills) < MaxSkills
  /\ skills' = skills \cup {Cardinality(skills) + 1}
  /\ response' = NoResponse
  /\ UNCHANGED <<users, created_at, address, user_skills, jobs, job_skills>>

\* POST /users/{user_id}/address -> crud.create_or_update_address
create_or_update_address(user_id, lat, lon) ==
  /\ user_id \in users
  /\ \/ ~IsNone(address[user_id])
     \/ Cardinality({u \in users : ~IsNone(address[u])}) < MaxAddresses
  /\ address' = [address EXCEPT ![user_id] = Some([latitude |-> lat, longitude |-> lon])]
  /\ response' = NoResponse
  /\ UNCHANGED <<users, created_at, skills, user_skills, jobs, job_skills>>

\* POST /users/{user_id}/skills/{skill_id} -> crud.attach_skill_to_user
attach_skill_to_user(user_id, skill_id) ==
  /\ user_id \in users
  /\ skill_id \in skills
  /\ Cardinality(user_skills \cup {<<user_id, skill_id>>}) <= MaxUserSkills
  /\ user_skills' = user_skills \cup {<<user_id, skill_id>>}
  /\ response' = NoResponse
  /\ UNCHANGED <<users, created_at, address, skills, jobs, job_skills>>

\* POST /jobs?empresa_id= -> routers.jobs.create_job -> crud.create_job
create_job(current_user, empresa_id, lat, lon, skill_ids) ==
  /\ current_user \in users
  /\ empresa_id = current_user
  /\ Len(jobs) < MaxJobs
  /\ skill_ids \subseteq skills
  /\ LET id == Len(jobs) + 1 IN
       /\ jobs' = Append(jobs, [id |-> id, company_id |-> empresa_id,
                                latitude |-> lat, longitude |-> lon])
       /\ job_skills' = job_skills \cup {<<id, s>> : s \in skill_ids}
  /\ response' = NoResponse
  /\ UNCHANGED <<users, created_at, address, skills, user_skills>>

\* Variant of read_job_matches: the scorer narrows each served user's skill
\* collection to the required skills in place and the session commits it.
read_job_matches_writing(current_user, job_id, limit, offset) ==
  /\ current_user \in users
  /\ limit >= 1 /\ limit <= LimitLe /\ offset >= 0
  /\ job_id \in 1..Len(jobs)
  /\ jobs[job_id].company_id = current_user
  /\ LET body == list_job_matches(jobs[job_id], limit, offset)
         served == {body[i].user_id : i \in DOMAIN body}
     IN /\ response' = [status |-> 200, job |-> job_id, limit |-> limit,
                        offset |-> offset, body |-> body]
        /\ user_skills' = {r \in user_skills :
                             r[1] \in served => r[2] \in job_skill_ids(jobs[job_id])}
  /\ UNCHANGED <<users, created_at, address, skills, jobs, job_skills>>

\* GET /jobs/{job_id}/matches -> routers.jobs.read_job_matches
read_job_matches(current_user, job_id, limit, offset) ==
  /\ current_user \in users
  /\ limit >= 1 /\ limit <= LimitLe /\ offset >= 0
  /\ job_id \in 1..Len(jobs)
  /\ jobs[job_id].company_id = current_user
  /\ response' = [status |-> 200, job |-> job_id, limit |-> limit, offset |-> offset,
                  body |-> list_job_matches(jobs[job_id], limit, offset)]
  /\ UNCHANGED db

\* read_job_matches refused: 404 from crud.get_job, 403 for a foreign job.
read_job_matches_refused(current_user, job_id) ==
  /\ current_user \in users
  /\ \/ job_id \notin 1..Len(jobs) /\ response' = ErrorResponse(404)
     \/ job_id \in 1..Len(jobs) /\ jobs[job_id].company_id # current_user
          /\ response' = ErrorResponse(403)
  /\ UNCHANGED db

OptLats == {None} \cup {Some(x) : x \in Lats}
OptJobLons == {None} \cup {Some(x) : x \in JobLons}

Next ==
  \/ create_user
  \/ create_skill
  \/ \E u \in 1..MaxUsers, lat \in Lats, lon \in Lons : create_or_update_address(u, lat, lon)
  \/ \E u \in 1..MaxUsers, s \in 1..MaxSkills : attach_skill_to_user(u, s)
  \/ \E cu \in 1..MaxUsers, lat \in OptLats, lon \in OptJobLons,
        sk \in SUBSET (1..MaxSkills) : create_job(cu, cu, lat, lon, sk)
  \/ \E cu \in 1..MaxUsers, j \in 1..MaxJobs, l \in 1..MaxLimit, o \in 0..MaxOffset :
        read_job_matches(cu, j, l, o)
  \/ \E cu \in 1..MaxUsers, j \in 1..MaxJobs : read_job_matches_refused(cu, j)

Spec == Init /\ [][Next]_vars

\* ------------------------------------------- distance calculator on its own
\* The store after two signups, an address upsert for user 2 and a job
\* created by user 1, with the job and the address anywhere on the grid.
HvInit ==
  \E jlat \in HvLats, jlon \in HvLons, ulat \in HvLats, ulon \in HvLons :
    /\ users = {1, 2}
    /\ created_at = <<1, 2>>
    /\ address = <<None, Some([latitude |-> ulat, longitude |-> ulon])>>
    /\ skills = {}
    /\ user_skills = {}
    /\ jobs = <<[id |-> 1, company_id |-> 1,
                 latitude |-> Some(jlat), longitude |-> Some(jlon)]>>
    /\ job_skills = {}
    /\ response = NoResponse

HvNext ==
  \E l \in 1..MaxLimit, o \in 0..MaxOffset : read_job_matches(1, 1, l, o)

SpecHaversine == HvInit /\ [][HvNext]_vars

\* ------------------------------------------------- vocabulary of the claims
Served == response.status = 200
Body == response.body
ServedJob == jobs[response.job]
ServedRequired == job_skill_ids(ServedJob)
BodyUsers == {Body[i].user_id : i \in DOMAIN Body}
Known(m) == ~IsNone(m.distance_km)
Km(m) == Val(m.distance_km)

\* a has a strictly higher overlap fraction than b
HigherFraction(a, b) ==
  a.matching_skills * b.required_skills > b.matching_skills * a.required_skills

\* The pool of section 4.2, as a set, and a user's position in it when it is
\* ordered by created_at descending.
ExpectedPool(job) ==
  {u \in users : /\ u # job.company_id
                 /\ job_skill_ids(job) # {} => user_skill_ids(u) \cap job_skill_ids(job) # {}}
PoolPosition(job, u) ==
  1 + Cardinality({v \in ExpectedPool(job) : created_at[v] > created_at[u]})
Window(job, limit, offset) ==
  {u \in ExpectedPool(job) : PoolPosition(job, u) > offset
                             /\ PoolPosition(job, u) <= offset + limit}
Min(a, b) == IF a < b THEN a ELSE b
Max(a, b) == IF a > b THEN a ELSE b

\* C1: among served candidates with the same matching_skills and a known
\* distance (0.0 included), the strictly nearer one comes first.
C1_NearerFirst ==
  Served => \A i, j \in DOMAIN Body :
    (/\ Body[i].matching_skills = Body[j].matching_skills
     /\ Known(Body[i]) /\ Known(Body[j])
     /\ Km(Body[i]) < Km(Body[j])) => i < j

\* C2: among served candidates with the same matching_skills, every one with
\* a known distance (0.0 included) comes before every one with no distance.
C2_KnownBeforeUnknown ==
  Served => \A i, j \in DOMAIN Body :
    (/\ Body[i].matching_skills = Body[j].matching_skills
     /\ Known(Body[i]) /\ ~Known(Body[j])) => i < j

\* C3: a served candidate with a strictly higher overlap fraction comes
\* before one with a lower fraction, whatever their distances.
C3_FractionDominates ==
  Served => \A i, j \in DOMAIN Body :
    HigherFraction(Body[i], Body[j]) => i < j

\* C3 witness: the better-matching candidate is served first although it has
\* no distance and the other one is at distance 0.0 or further.
C3_Witness ==
  /\ Served
  /\ \E i, j \in DOMAIN Body :
       /\ HigherFraction(Body[i], Body[j]) /\ i < j
       /\ ~Known(Body[i]) /\ Known(Body[j])
  /\ \E i, j \in DOMAIN Body :
       /\ HigherFraction(Body[i], Body[j])
       /\ created_at[Body[i].user_id] < created_at[Body[j].user_id]

\* C4: the job's owner is never among the served candidates.
C4_OwnerExcluded ==
  Served => \A i \in DOMAIN Body : Body[i].user_id # ServedJob.company_id

\* C4 witness: candidates were served for a job whose owner holds every
\* required skill (at least one is required).
C4_Witness ==
  /\ Served
  /\ ServedRequired # {}
  /\ ServedRequired \subseteq user_skill_ids(ServedJob.company_id)
  /\ Body # <<>>

\* C5: for every job the query's rows, before OFFSET/LIMIT, are exactly the
\* users other than the owner that hold at least one required skill (all
\* users other than the owner when nothing is required), each once.
C5_PoolExact ==
  \A j \in 1..Len(jobs) :
    LET pool == candidate_query(jobs[j], job_skill_ids(jobs[j])) IN
      /\ {pool[i] : i \in DOMAIN pool} = ExpectedPool(jobs[j])
      /\ \A a, b \in DOMAIN pool : pool[a] = pool[b] => a = b

\* C5 witness: candidates were served for a job with two required skills, one
\* candidate holding both of them, while a user without skills is left out.
C5_Witness ==
  /\ Served
  /\ Cardinality(ServedRequired) >= 2
  /\ \E i \in DOMAIN Body : ServedRequired \subseteq user_skill_ids(Body[i].user_id)
  /\ \E u \in users : u # ServedJob.company_id /\ user_skill_ids(u) = {}
                      /\ u \notin ExpectedPool(ServedJob)

\* C6: the served users are exactly the users at positions offset+1 ..
\* offset+limit of the pool ordered by created_at descending, each once, so
\* there are min(limit, max(0, poolSize - offset)) of them.
C6_PaginateThenRank ==
  Served =>
    /\ BodyUsers = Window(ServedJob, response.limit, response.offset)
    /\ Len(Body) = Min(response.limit,
                       Max(0, Cardinality(ExpectedPool(ServedJob)) - response.offset))
    /\ \A a, b \in DOMAIN Body : Body[a].user_id = Body[b].user_id => a = b

\* C6 witness: a page of one candidate from a pool of two, while the user
\* outside the page matches more skills than the one served.
C6_Witness ==
  /\ Served
  /\ response.limit = 1 /\ response.offset = 0
  /\ Len(Body) = 1
  /\ \E u \in ExpectedPool(ServedJob) \ BodyUsers :
       Cardinality(user_skill_ids(u) \cap ServedRequired) > Body[1].matching_skills

\* C7: with R the job's required skill ids and S the candidate's skill ids,
\* matching_skills = |R \cap S| and required_skills = |R| when R is non-empty,
\* and matching_skills = |S| and required_skills = 1 when R is empty.
C7_Scores ==
  Served => \A i \in DOMAIN Body :
    LET R == ServedRequired
        S == user_skill_ids(Body[i].user_id)
    IN IF R # {}
       THEN /\ Body[i].matching_skills = Cardinality(R \cap S)
            /\ Body[i].required_skills = Cardinality(R)
       ELSE /\ Body[i].matching_skills = Cardinality(S)
            /\ Body[i].required_skills = 1

\* C7 witness: a job with no required skill served a candidate holding two
\* skills (matching_skills 2 of required_skills 1).
C7_Witness ==
  /\ Served
  /\ ServedRequired = {}
  /\ \E i \in DOMAIN Body : Body[i].matching_skills = 2 /\ Body[i].required_skills = 1

\* C8: a match request writes nothing, and the list it returns is the list
\* the same request returns when run alone on the store it leaves behind.
C8_NoWrite ==
  /\ [][response'.status = 200 => db' = db]_vars
  /\ [](Served => Body = list_job_matches(ServedJob, response.limit, response.offset))

\* C8 witness: a non-empty list was served from a store holding addresses
\* and skill associations.
C8_Witness ==
  /\ Served
  /\ Len(Body) = 2
  /\ user_skills # {}
  /\ \E u \in users : ~IsNone(address[u])

\* C9: a served candidate's distance_km is absent exactly when the job has
\* no latitude, or no longitude, or the candidate has no address; the
\* candidates of the page are all served, with or without coordinates.
C9_MissingGeodata ==
  Served =>
    /\ \A i \in DOMAIN Body :
         ~Known(Body[i]) <=> \/ IsNone(ServedJob.latitude)
                             \/ IsNone(ServedJob.longitude)
                             \/ IsNone(address[Body[i].user_id])
    /\ \A u \in Window(ServedJob, response.limit, response.offset) :
         \E i \in DOMAIN Body : Body[i].user_id = u

\* C9 witness: a job with a latitude but no longitude served a candidate that
\* has an address, without a distance.
C9_Witness ==
  /\ Served
  /\ ~IsNone(ServedJob.latitude) /\ IsNone(ServedJob.longitude)
  /\ \E i \in DOMAIN Body : ~IsNone(address[Body[i].user_id]) /\ ~Known(Body[i])

\* C10: two served candidates that are equal on both sort keys (the same
\* matching_skills, and the same distance or two distances the key maps to
\* infinity: absent or 0.0) keep the selector's order, the more recently
\* created one first.
SameEffectiveDistance(a, b) ==
  \/ a.distance_km = b.distance_km
  \/ (~Known(a) \/ Km(a) = 0) /\ (~Known(b) \/ Km(b) = 0)

C10_StableOrder ==
  Served => \A i, j \in DOMAIN Body :
    (/\ Body[i].matching_skills = Body[j].matching_skills
     /\ SameEffectiveDistance(Body[i], Body[j])
     /\ created_at[Body[i].user_id] > created_at[Body[j].user_id]) => i < j

\* C10 witness: two candidates with one matching skill each, both at the same
\* known non-zero distance, were served.
C10_Witness ==
  /\ Served
  /\ \E i, j \in DOMAIN Body :
       /\ i # j
       /\ Body[i].matching_skills = 1 /\ Body[j].matching_skills = 1
       /\ Known(Body[i]) /\ Body[i].distance_km = Body[j].distance_km
       /\ Km(Body[i]) > 0

\* C12: for a job with at least one required skill every served entry has
\* 1 <= matching_skills <= required_skills; an entry with matching_skills 0
\* or above required_skills is served only by a job that requires nothing.
C12_OverlapBounds ==
  Served => \A i \in DOMAIN Body :
    /\ ServedRequired # {} =>
         /\ 1 <= Body[i].matching_skills
         /\ Body[i].matching_skills <= Body[i].required_skills
    /\ (Body[i].matching_skills = 0
        \/ Body[i].matching_skills > Body[i].required_skills) => ServedRequired = {}

\* C12 witness: a job requiring two skills served a candidate holding one of
\* them, while a user holding neither is in the store and is not served.
C12_Witness ==
  /\ Served
  /\ Cardinality(ServedRequired) = 2
  /\ response.offset = 0 /\ response.limit = 2
  /\ \E i \in DOMAIN Body : Body[i].matching_skills = 1
  /\ \E u \in users \ BodyUsers :
       u # ServedJob.company_id /\ user_skill_ids(u) \cap ServedRequired = {}

\* C11: _haversine is symmetric after rounding: the distance served for a
\* candidate, computed from the job to the candidate's address, equals
\* _haversine computed from the address to the job.
C11_HaversineSymmetric ==
  Served => \A i \in DOMAIN Body :
    Known(Body[i]) =>
      LET a == Val(address[Body[i].user_id]) IN
        Km(Body[i]) = haversine(a.latitude, a.longitude,
                                Val(ServedJob.latitude), Val(ServedJob.longitude))

\* C11 witness: a distance was served between two points that differ in
\* latitude and in longitude, neither of them on the zero meridian.
C11_Witness ==
  /\ Served
  /\ \E i \in DOMAIN Body :
       LET a == Val(address[Body[i].user_id]) IN
         /\ Known(Body[i]) /\ Km(Body[i]) > 0
         /\ a.latitude # Val(ServedJob.latitude)
         /\ a.longitude # Val(ServedJob.longitude)
         /\ a.longitude # 0 /\ Val(ServedJob.longitude) # 0
====
